---- MODULE Spec2Model ----
(***************************************************************************)
(* Model of src/main.py: the Streamlit OLAP front-end.                     *)
(*                                                                         *)
(*  Spec       the control flow of main, get_genres_and_languages and     *)
(*             call_procedure: connections, exceptions, order of steps.    *)
(*  SpecShape  the date-range formatter (groupby/agg) and the chart        *)
(*             projection derived from the shaped table.                   *)
(*  SpecPrice  the price pivot chart of the price/developer query.         *)
(***************************************************************************)
EXTENDS Integers, Sequences, FiniteSets, TLC

VARIABLES
    pc,               \* position of the single Python thread
    caller,           \* who called call_procedure: "main", "direct", "none"
    runs,             \* number of script runs / direct calls started so far
    conns,            \* every connection ever opened: "open" or "closed"
    cp_conn,          \* index in conns of call_procedure's conn, 0 if none
    exc,              \* exception in flight ("none" when there is none)
    trace,            \* events of the current run, in program order
    label,            \* procedure_name argument of call_procedure
    formatter,        \* kind of the formatter argument of call_procedure
    procedure,        \* the sidebar selectbox "Select Procedure"
    date_interval,    \* the sidebar selectbox "Date Interval"
    pivot_axis,       \* the sidebar selectbox "Pivot Axis"
    genres,           \* list returned by get_genres_and_languages
    languages,        \* list returned by get_genres_and_languages
    selected_genres,  \* multiselect "Genres"
    selected_languages, \* multiselect "Languages"
    button,           \* st.sidebar.button("Run Procedure")
    stage,            \* position of the data pipeline (SpecShape, SpecPrice)
    raw,              \* raw result table handed to formatter
    shaped,           \* formatter's result (df.data)
    series,           \* the chart data frame handed to st.bar_chart
    dtypes            \* which raw columns pandas holds as float64

ctlvars == <<pc, caller, runs, conns, cp_conn, exc, trace, label, formatter,
             procedure, date_interval, pivot_axis, genres, languages,
             selected_genres, selected_languages, button>>
datavars == <<stage, raw, shaped, series, dtypes>>
mainlocals == <<procedure, date_interval, pivot_axis, genres, languages,
                selected_genres, selected_languages, button>>
vars == <<pc, caller, runs, conns, cp_conn, exc, trace, label, formatter,
          procedure, date_interval, pivot_axis, genres, languages,
          selected_genres, selected_languages, button,
          stage, raw, shaped, series, dtypes>>

----------------------------------------------------------------------------
(* Bounds *)

MaxRuns == 2

----------------------------------------------------------------------------
(* The procedure registry, main.py lines 7-12 *)

DATE_RANGE == "Get games released within a certain date range"
PRICE_REVIEWS == "See how reviews and recommendations are affected by price range"
GENRE_LANGUAGE == "See the relationship between genre and language to reviews and recommendations"
PRICE_DEVELOPER == "See the relationship between game price and developers"

PROCEDURES ==
    (DATE_RANGE :> "get_games_by_price_and_date")
    @@ (PRICE_REVIEWS :> "get_reco_by_price_range")
    @@ (GENRE_LANGUAGE :> "analyze_genre_language_to_reviews_recommendations")
    @@ (PRICE_DEVELOPER :> "sp_analyze_game_price_developer_relationship")

\* A label that is not a key of PROCEDURES, and the value of "no label yet".
UnknownLabel == "no such procedure"
NoLabel == "none"

Intervals == {"yearly", "quarterly", "monthly", "daily"}

\* Contents the genres and languages tables can have.
GenreLists == {<<>>, <<"Action">>, <<"Action", "RPG">>}
LanguageLists == {<<>>, <<"English">>}

Range(s) == {s[i] : i \in 1..Len(s)}

Count(s, e) == Cardinality({i \in 1..Len(s) : s[i] = e})

\* Position of the first occurrence of e in s (0 if absent).
FirstIdx(s, e) ==
    IF \E i \in 1..Len(s) : s[i] = e
    THEN CHOOSE i \in 1..Len(s) : s[i] = e /\ \A j \in 1..(i-1) : s[j] # e
    ELSE 0

----------------------------------------------------------------------------
(* Control flow *)

\* pymysql.connect succeeded: a new open connection.
Opened == Append(conns, "open")

\* conn.close() on connection i.
Closed(i) == [conns EXCEPT ![i] = "closed"]

\* The locals of main do not exist yet when a run or a call starts.
MainLocalsFresh ==
    /\ procedure' = NoLabel
    /\ date_interval' = "none"
    /\ pivot_axis' = "none"
    /\ genres' = <<>>
    /\ languages' = <<>>
    /\ selected_genres' = {}
    /\ selected_languages' = {}
    /\ button' = FALSE

\* A Streamlit run of the script: main() starts.
StartMain ==
    /\ pc \in {"idle", "done", "raised"}
    /\ runs < MaxRuns
    /\ runs' = runs + 1
    /\ pc' = "ggl_connect"
    /\ caller' = "main"
    /\ exc' = "none"
    /\ trace' = <<>>
    /\ label' = NoLabel
    /\ cp_conn' = 0
    /\ formatter' = "none"
    /\ MainLocalsFresh
    /\ UNCHANGED conns
    /\ UNCHANGED datavars

\* call_procedure called as a function, with any label and any formatter.
StartDirect ==
    /\ pc \in {"idle", "done", "raised"}
    /\ runs < MaxRuns
    /\ runs' = runs + 1
    /\ \E l \in DOMAIN PROCEDURES \cup {UnknownLabel} : label' = l
    /\ \E f \in {"identity", "groupby", "other"} : formatter' = f
    /\ pc' = "cp_lookup"
    /\ caller' = "direct"
    /\ exc' = "none"
    /\ trace' = <<>>
    /\ cp_conn' = 0
    /\ MainLocalsFresh
    /\ UNCHANGED conns
    /\ UNCHANGED datavars

\* get_genres_and_languages, line 29: conn = connect_to_db(), outside try.
GglConnect ==
    /\ pc = "ggl_connect"
    /\ \/ /\ conns' = Opened
          /\ trace' = Append(trace, "open")
          /\ pc' = "ggl_query"
          /\ exc' = "none"
       \/ /\ exc' = "connect"
          /\ pc' = "raised"
          /\ UNCHANGED <<conns, trace>>
    /\ UNCHANGED <<caller, runs, cp_conn, label, formatter, procedure,
                   date_interval, pivot_axis, genres, languages,
                   selected_genres, selected_languages, button>>
    /\ UNCHANGED datavars

\* get_genres_and_languages, lines 31-40: the two SELECT DISTINCT queries.
GglQuery ==
    /\ pc = "ggl_query"
    /\ \/ /\ \E g \in GenreLists : genres' = g
          /\ \E l \in LanguageLists : languages' = l
          /\ exc' = "none"
       \/ /\ exc' = "execute"
          /\ UNCHANGED <<genres, languages>>
    /\ pc' = "ggl_finally"
    /\ UNCHANGED <<caller, runs, conns, cp_conn, trace, label, formatter,
                   procedure, date_interval, pivot_axis,
                   selected_genres, selected_languages, button>>
    /\ UNCHANGED datavars

\* get_genres_and_languages without its finally block.
GglFinallyNoClose ==
    /\ pc = "ggl_finally"
    /\ pc' = IF exc = "none" THEN "sidebar" ELSE "raised"
    /\ trace' = trace
    /\ UNCHANGED <<caller, runs, conns, cp_conn, exc, label, formatter>>
    /\ UNCHANGED mainlocals
    /\ UNCHANGED datavars

\* get_genres_and_languages, lines 41-42: finally: conn.close().
GglFinally ==
    /\ pc = "ggl_finally"
    /\ conns' = Closed(Len(conns))
    /\ trace' = Append(trace, "close")
    /\ pc' = IF exc = "none" THEN "sidebar" ELSE "raised"
    /\ UNCHANGED <<caller, runs, cp_conn, exc, label, formatter, procedure,
                   date_interval, pivot_axis, genres, languages,
                   selected_genres, selected_languages, button>>
    /\ UNCHANGED datavars

\* main, lines 70-75 and 129-133: the date-range branch up to the call.
MainDateRange ==
    /\ pc = "sidebar"
    /\ procedure' = DATE_RANGE
    /\ \E i \in Intervals : date_interval' = i
    /\ \E b \in BOOLEAN : button' = b
    /\ IF button'
       THEN /\ formatter' = "groupby"
            /\ label' = procedure'
            /\ pc' = "cp_lookup"
       ELSE /\ pc' = "done"
            /\ UNCHANGED <<formatter, label>>
    /\ UNCHANGED <<caller, runs, conns, cp_conn, exc, trace, pivot_axis,
                   genres, languages, selected_genres, selected_languages>>
    /\ UNCHANGED datavars

\* main, lines 177-184: the price-range reviews branch up to the call.
MainPriceReviews ==
    /\ pc = "sidebar"
    /\ procedure' = PRICE_REVIEWS
    /\ \E b \in BOOLEAN : button' = b
    /\ IF button'
       THEN /\ formatter' = "identity"
            /\ label' = procedure'
            /\ pc' = "cp_lookup"
       ELSE /\ pc' = "done"
            /\ UNCHANGED <<formatter, label>>
    /\ UNCHANGED <<caller, runs, conns, cp_conn, exc, trace, date_interval,
                   pivot_axis, genres, languages, selected_genres,
                   selected_languages>>
    /\ UNCHANGED datavars

\* The genre/language branch with the emptiness check after the button.
MainGenreLanguageLateCheck ==
    /\ pc = "sidebar"
    /\ procedure' = GENRE_LANGUAGE
    /\ \E g \in SUBSET Range(genres) : selected_genres' = g
    /\ \E l \in SUBSET Range(languages) : selected_languages' = l
    /\ \E a \in {"genre", "language"} : pivot_axis' = a
    /\ \E b \in BOOLEAN : button' = b
    /\ IF button'
       THEN /\ formatter' = "identity"
            /\ label' = procedure'
            /\ pc' = "cp_lookup"
            /\ UNCHANGED trace
       ELSE /\ pc' = "done"
            /\ trace' = IF selected_genres' = {} \/ selected_languages' = {}
                        THEN Append(trace, "warning") ELSE trace
            /\ UNCHANGED <<formatter, label>>
    /\ UNCHANGED <<caller, runs, conns, cp_conn, exc, date_interval,
                   genres, languages>>
    /\ UNCHANGED datavars

\* main, lines 206-223: the genre/language branch up to the call.  The
\* multiselects offer the fetched genres and languages; an empty selection
\* returns after the warning, before the button is looked at.
MainGenreLanguage ==
    /\ pc = "sidebar"
    /\ procedure' = GENRE_LANGUAGE
    /\ \E g \in SUBSET Range(genres) : selected_genres' = g
    /\ \E l \in SUBSET Range(languages) : selected_languages' = l
    /\ \E a \in {"genre", "language"} : pivot_axis' = a
    /\ \E b \in BOOLEAN : button' = b
    /\ IF selected_genres' = {} \/ selected_languages' = {}
       THEN /\ trace' = Append(trace, "warning")
            /\ pc' = "done"
            /\ UNCHANGED <<formatter, label>>
       ELSE IF button'
       THEN /\ formatter' = "identity"
            /\ label' = procedure'
            /\ pc' = "cp_lookup"
            /\ UNCHANGED trace
       ELSE /\ pc' = "done"
            /\ UNCHANGED <<formatter, label, trace>>
    /\ UNCHANGED <<caller, runs, conns, cp_conn, exc, date_interval,
                   genres, languages>>
    /\ UNCHANGED datavars

\* main, lines 226-234: the price/developer branch up to the call.
MainPriceDeveloper ==
    /\ pc = "sidebar"
    /\ procedure' = PRICE_DEVELOPER
    /\ \E a \in {"price", "developer"} : pivot_axis' = a
    /\ \E b \in BOOLEAN : button' = b
    /\ IF button'
       THEN /\ formatter' = "identity"
            /\ label' = procedure'
            /\ pc' = "cp_lookup"
       ELSE /\ pc' = "done"
            /\ UNCHANGED <<formatter, label>>
    /\ UNCHANGED <<caller, runs, conns, cp_conn, exc, trace, date_interval,
                   genres, languages, selected_genres, selected_languages>>
    /\ UNCHANGED datavars

\* A statement of call_procedure's try block raises: control goes to finally.
RaiseInTry(e) ==
    /\ exc' = e
    /\ pc' = "cp_finally"

\* call_procedure, line 46: procedure_func = PROCEDURES[procedure_name].
\* With a connection opened before the key is found missing.
CpLookupAfterConnect ==
    /\ pc = "cp_lookup"
    /\ IF label \in DOMAIN PROCEDURES
       THEN /\ pc' = "cp_connect"
            /\ UNCHANGED <<exc, conns, cp_conn, trace>>
       ELSE /\ conns' = Opened
            /\ cp_conn' = Len(conns')
            /\ trace' = Append(trace, "open")
            /\ RaiseInTry("KeyError")
    /\ UNCHANGED <<caller, runs, label, formatter>>
    /\ UNCHANGED mainlocals
    /\ UNCHANGED datavars

\* call_procedure, line 46: procedure_func = PROCEDURES[procedure_name].
\* A missing key raises KeyError before anything else happens.
CpLookup ==
    /\ pc = "cp_lookup"
    /\ IF label \in DOMAIN PROCEDURES
       THEN /\ pc' = "cp_connect"
            /\ UNCHANGED exc
       ELSE /\ exc' = "KeyError"
            /\ pc' = "raised"
    /\ UNCHANGED <<caller, runs, conns, cp_conn, trace, label, formatter>>
    /\ UNCHANGED mainlocals
    /\ UNCHANGED datavars

\* call_procedure, line 47: conn = connect_to_db(), outside the try block.
CpConnect ==
    /\ pc = "cp_connect"
    /\ \/ /\ conns' = Opened
          /\ cp_conn' = Len(conns')
          /\ trace' = Append(trace, "open")
          /\ pc' = "cp_cursor"
          /\ UNCHANGED exc
       \/ /\ exc' = "connect"
          /\ pc' = "raised"
          /\ UNCHANGED <<conns, cp_conn, trace>>
    /\ UNCHANGED <<caller, runs, label, formatter>>
    /\ UNCHANGED mainlocals
    /\ UNCHANGED datavars

\* call_procedure, line 49: with conn.cursor() as cursor.
CpCursor ==
    /\ pc = "cp_cursor"
    /\ \/ /\ pc' = "cp_callproc"
          /\ UNCHANGED exc
       \/ RaiseInTry("cursor")
    /\ UNCHANGED <<caller, runs, conns, cp_conn, trace, label, formatter>>
    /\ UNCHANGED mainlocals
    /\ UNCHANGED datavars

\* call_procedure, line 50: cursor.callproc(procedure_func, params).
CpCallproc ==
    /\ pc = "cp_callproc"
    /\ trace' = Append(trace, "callproc")
    /\ \/ /\ pc' = "cp_fetchall"
          /\ UNCHANGED exc
       \/ RaiseInTry("callproc")
    /\ UNCHANGED <<caller, runs, conns, cp_conn, label, formatter>>
    /\ UNCHANGED mainlocals
    /\ UNCHANGED datavars

\* call_procedure, line 51: result = cursor.fetchall().
CpFetchall ==
    /\ pc = "cp_fetchall"
    /\ \/ /\ pc' = "cp_description"
          /\ UNCHANGED exc
       \/ RaiseInTry("fetchall")
    /\ UNCHANGED <<caller, runs, conns, cp_conn, trace, label, formatter>>
    /\ UNCHANGED mainlocals
    /\ UNCHANGED datavars

\* call_procedure, line 52: columns = [col[0] for col in cursor.description].
CpDescription ==
    /\ pc = "cp_description"
    /\ \/ /\ pc' = "cp_formatter"
          /\ UNCHANGED exc
       \/ RaiseInTry("description")
    /\ UNCHANGED <<caller, runs, conns, cp_conn, trace, label, formatter>>
    /\ UNCHANGED mainlocals
    /\ UNCHANGED datavars

\* call_procedure, line 54: df = formatter(pd.DataFrame(result, columns)).
\* The identity formatter of lines 181, 216 and 231 cannot raise.
CpFormatter ==
    /\ pc = "cp_formatter"
    /\ \/ /\ trace' = Append(trace, "shape")
          /\ pc' = "cp_style"
          /\ UNCHANGED exc
       \/ /\ formatter # "identity"
          /\ RaiseInTry("formatter")
          /\ UNCHANGED trace
    /\ UNCHANGED <<caller, runs, conns, cp_conn, label, formatter>>
    /\ UNCHANGED mainlocals
    /\ UNCHANGED datavars

\* call_procedure, line 55: return df.style.hide(...).format(precision=2).
\* The return value is held while the finally block runs.
CpStyle ==
    /\ pc = "cp_style"
    /\ \/ /\ pc' = "cp_finally"
          /\ UNCHANGED exc
       \/ RaiseInTry("style")
    /\ UNCHANGED <<caller, runs, conns, cp_conn, trace, label, formatter>>
    /\ UNCHANGED mainlocals
    /\ UNCHANGED datavars

\* Where main continues after call_procedure returns (lines 134, 185, 224,
\* 235).
AfterCall == IF procedure = PRICE_REVIEWS THEN "coerce" ELSE "write"

\* The close written at the end of the try block instead of in finally.
CpFinallyOnSuccessOnly ==
    /\ pc = "cp_finally"
    /\ IF exc = "none"
       THEN /\ conns' = Closed(cp_conn)
            /\ trace' = Append(trace, "close")
       ELSE UNCHANGED <<conns, trace>>
    /\ pc' = IF exc # "none" THEN "raised"
             ELSE IF caller = "main" THEN AfterCall ELSE "done"
    /\ UNCHANGED <<caller, runs, cp_conn, exc, label, formatter>>
    /\ UNCHANGED mainlocals
    /\ UNCHANGED datavars

\* call_procedure, lines 56-57: finally: conn.close(); then the pending
\* return or exception leaves the function.
CpFinally ==
    /\ pc = "cp_finally"
    /\ conns' = Closed(cp_conn)
    /\ trace' = Append(trace, "close")
    /\ pc' = IF exc # "none" THEN "raised"
             ELSE IF caller = "main" THEN AfterCall ELSE "done"
    /\ UNCHANGED <<caller, runs, cp_conn, exc, label, formatter>>
    /\ UNCHANGED mainlocals
    /\ UNCHANGED datavars

\* main, lines 185-187: the three astype(float) coercions of the reviews
\* branch; a value that is no number raises ValueError.
MainCoerce ==
    /\ pc = "coerce"
    /\ \/ /\ trace' = Append(trace, "project")
          /\ pc' = "write"
          /\ UNCHANGED exc
       \/ /\ exc' = "ValueError"
          /\ pc' = "raised"
          /\ UNCHANGED trace
    /\ UNCHANGED <<caller, runs, conns, cp_conn, label, formatter>>
    /\ UNCHANGED mainlocals
    /\ UNCHANGED datavars

\* main, lines 134, 188, 224 and 235: st.write(df).
MainWrite ==
    /\ pc = "write"
    /\ trace' = Append(trace, "write")
    /\ pc' = IF procedure = DATE_RANGE THEN "project"
             ELSE IF procedure = PRICE_REVIEWS THEN "chart"
             ELSE IF procedure = PRICE_DEVELOPER /\ pivot_axis = "price"
                  THEN "project"
             ELSE "done"
    /\ UNCHANGED <<caller, runs, conns, cp_conn, exc, label, formatter>>
    /\ UNCHANGED mainlocals
    /\ UNCHANGED datavars

\* main, lines 136-138, 147-148, 158-159, 169 and 239-243: the chart data
\* frame is derived from df.data; a missing column or a range label that
\* does not parse raises.
MainProject ==
    /\ pc = "project"
    /\ \/ /\ trace' = Append(trace, "project")
          /\ pc' = "chart"
          /\ UNCHANGED exc
       \/ /\ exc' = "project"
          /\ pc' = "raised"
          /\ UNCHANGED trace
    /\ UNCHANGED <<caller, runs, conns, cp_conn, label, formatter>>
    /\ UNCHANGED mainlocals
    /\ UNCHANGED datavars

\* main, lines 140, 150, 161, 171, 191 and 245: st.bar_chart.
MainChart ==
    /\ pc = "chart"
    /\ trace' = Append(trace, "chart")
    /\ pc' = IF procedure = PRICE_REVIEWS THEN "chart2" ELSE "done"
    /\ UNCHANGED <<caller, runs, conns, cp_conn, exc, label, formatter>>
    /\ UNCHANGED mainlocals
    /\ UNCHANGED datavars

\* main, line 199: the second bar chart of the reviews branch.
MainChart2 ==
    /\ pc = "chart2"
    /\ trace' = Append(trace, "chart")
    /\ pc' = "done"
    /\ UNCHANGED <<caller, runs, conns, cp_conn, exc, label, formatter>>
    /\ UNCHANGED mainlocals
    /\ UNCHANGED datavars

----------------------------------------------------------------------------
(* Tables.  A cell is NULL (None / NaN) or Some(v); a row maps column names *)
(* to cells; a table is a sequence of rows.                                 *)

MaxRows == 3

NULL == <<>>
Some(v) == <<v>>
Val(c) == c[1]

\* Strings that the code formats, splits or parses are sequences of
\* one-character strings.
Digits == <<"0", "1", "2", "3", "4", "5", "6", "7", "8", "9">>

\* All tables of at most MaxRows rows over a set of rows.
Tables(rows) == UNION {[1..n -> rows] : n \in 0..MaxRows}

\* The period columns the backend derives from one release date; a game
\* without a release date has them all null.
Periods ==
    { [Year |-> NULL, Quarter |-> NULL, Month |-> NULL, Date |-> NULL],
      [Year |-> Some(2020), Quarter |-> Some(1), Month |-> Some(1),
       Date |-> Some("2020-01-15")],
      [Year |-> Some(2020), Quarter |-> Some(4), Month |-> Some(11),
       Date |-> Some("2020-11-02")] }

Counts == {5, 6}

\* The non-key columns of one raw row (one developer/genre/website/platform
\* combination of a game).
NonKeys ==
    { [developer |-> Some("X"), genre |-> Some("Action"), website |-> NULL,
       platform |-> Some("win")],
      [developer |-> Some("Y"), genre |-> NULL, website |-> NULL,
       platform |-> Some("win")] }

\* Rows get_games_by_price_and_date can return: game "A" in every period,
\* with either count and either non-key combination, and a second game "B".
RawRows ==
    { [Year |-> p.Year, Quarter |-> p.Quarter, Month |-> p.Month,
       Date |-> p.Date, count |-> Some(c), name |-> Some("A"),
       price |-> Some(999), developer |-> n.developer, genre |-> n.genre,
       website |-> n.website, platform |-> n.platform]
      : p \in Periods, c \in Counts, n \in NonKeys }
    \cup
    { [Year |-> Some(2020), Quarter |-> Some(1), Month |-> Some(1),
       Date |-> Some("2020-01-15"), count |-> Some(5), name |-> Some("B"),
       price |-> Some(999), developer |-> Some("X"), genre |-> Some("Action"),
       website |-> NULL, platform |-> Some("win")] }

\* pd.DataFrame(result, columns=columns), line 54: a numeric column that
\* holds a None becomes float64 (None turns into NaN).
FloatColumns(df) ==
    {c \in {"Year", "Quarter", "Month", "count", "price"} :
        \E i \in 1..Len(df) : c \in DOMAIN df[i] /\ df[i][c] = NULL}

\* The by= list of each groupby, lines 80, 93, 106 and 119.
GroupKey(interval) ==
    CASE interval = "yearly"    -> <<"Year", "count", "name", "price">>
      [] interval = "quarterly" -> <<"Year", "Quarter", "count", "name", "price">>
      [] interval = "monthly"   -> <<"Year", "Month", "count", "name", "price">>
      [] interval = "daily"     -> <<"Date", "count", "name", "price">>

\* The columns named in the agg dict, lines 81-86.
SetColumns == {"developer", "genre", "website", "platform"}

\* The key values of a row.
KeyOf(row, by) == [i \in 1..Len(by) |-> row[by[i]]]

HasNullKey(row, by) == \E i \in 1..Len(by) : row[by[i]] = NULL

\* groupby(by) with the default dropna=True: a row with a null in any key
\* column belongs to no group.
GroupedRows(df, by) == SelectSeq(df, LAMBDA r : ~HasNullKey(r, by))

RECURSIVE Distinct(_)
\* The distinct elements of a sequence, each at its first occurrence.
Distinct(s) ==
    IF s = <<>> THEN <<>>
    ELSE LET front == Distinct(SubSeq(s, 1, Len(s) - 1))
             last == s[Len(s)]
         IN IF \E i \in 1..Len(front) : front[i] = last
            THEN front ELSE Append(front, last)

RECURSIVE DistinctLast(_)
\* The distinct elements of a sequence, each at its last occurrence.
DistinctLast(s) ==
    IF s = <<>> THEN <<>>
    ELSE LET rest == DistinctLast(Tail(s))
         IN IF \E i \in 1..Len(rest) : rest[i] = Head(s)
            THEN rest ELSE <<Head(s)>> \o rest

\* The groups ordered by the last row of each group.
GroupOrderLast(rows, by) ==
    DistinctLast([i \in 1..Len(rows) |-> KeyOf(rows[i], by)])

\* groupby(by, sort=False): the groups in order of first appearance.
GroupOrder(rows, by) ==
    Distinct([i \in 1..Len(rows) |-> KeyOf(rows[i], by)])

\* lambda x: set(x.tolist()), the dropna() forgotten.
CollectSetKeepNull(rows, by, key, col) ==
    { rows[i][col] : i \in {j \in 1..Len(rows) : KeyOf(rows[j], by) = key} }

\* lambda x: set(x.dropna().tolist()) applied to column col of one group.
\* The set is kept as a set of cells, so that a null member can be told.
CollectSet(rows, by, key, col) ==
    { rows[i][col] : i \in {j \in 1..Len(rows) :
                              /\ KeyOf(rows[j], by) = key
                              /\ rows[j][col] # NULL} }

\* The formatter of lines 78-88, 91-101, 104-114 and 117-127: one row per
\* group, holding the key columns and the four collected sets.
Formatter(df, interval) ==
    LET by == GroupKey(interval)
        rows == GroupedRows(df, by)
        order == GroupOrder(rows, by)
    IN [g \in 1..Len(order) |->
          [c \in Range(by) \cup SetColumns |->
              IF c \in SetColumns
              THEN CollectSet(rows, by, order[g], c)
              ELSE order[g][CHOOSE i \in 1..Len(by) : by[i] = c]]]

----------------------------------------------------------------------------
(* Chart projection of the date-range branch, lines 136-175 *)

RECURSIVE IntToStr(_)
\* str() of a non-negative int.
IntToStr(n) ==
    IF n < 10 THEN <<Digits[n + 1]>>
    ELSE IntToStr(n \div 10) \o <<Digits[(n % 10) + 1]>>

\* Series.astype(str) of a numeric column: an int64 column prints "2020",
\* a float64 column prints "2020.0".
AsTypeStr(cell, col, floats) ==
    IF col \in floats THEN IntToStr(Val(cell)) \o <<".", "0">>
    ELSE IntToStr(Val(cell))

RECURSIVE ZFill(_, _)
\* str.zfill(width): pad with zeros on the left (no sign in these strings).
ZFill(str, width) ==
    IF Len(str) >= width THEN str ELSE ZFill(<<"0">> \o str, width)

\* df[cols]: the named columns of every row.
Columns(df, cols) == [i \in 1..Len(df) |-> [c \in cols |-> df[i][c]]]

\* The projection with drop_duplicates() left out.
KeepDuplicates(df) == df

\* DataFrame.drop_duplicates(): the first of every run of equal rows stays.
DropDuplicates(df) == Distinct(df)

\* Lines 138-141: year_count_df, indexed by Year.
YearlySeries(data, floats) ==
    LET d == DropDuplicates(Columns(data, {"Year", "count"}))
    IN [i \in 1..Len(d) |->
          [category |-> Val(d[i].Year), count |-> Val(d[i].count)]]

\* Lines 147-151: year_quarter_count_df, indexed by "Year-Quarter".
QuarterlySeries(data, floats) ==
    LET d == DropDuplicates(Columns(data, {"Year", "Quarter", "count"}))
    IN [i \in 1..Len(d) |->
          [category |-> AsTypeStr(d[i].Year, "Year", floats) \o <<" ", "Q">>
                        \o AsTypeStr(d[i].Quarter, "Quarter", floats),
           count |-> Val(d[i].count)]]

\* Lines 158-162: year_month_count_df, indexed by "Year-Month".
MonthlySeries(data, floats) ==
    LET d == DropDuplicates(Columns(data, {"Year", "Month", "count"}))
    IN [i \in 1..Len(d) |->
          [category |-> AsTypeStr(d[i].Year, "Year", floats) \o <<"-">>
                        \o ZFill(AsTypeStr(d[i].Month, "Month", floats), 2),
           count |-> Val(d[i].count)]]

\* Lines 169-172: date_count_df, indexed by Date.
DailySeries(data, floats) ==
    LET d == DropDuplicates(Columns(data, {"Date", "count"}))
    IN [i \in 1..Len(d) |->
          [category |-> Val(d[i].Date), count |-> Val(d[i].count)]]

----------------------------------------------------------------------------
(* Price pivot chart of the price/developer branch, lines 237-250 *)

\* The full_price_interval labels the backend can return, "<min>-<max>",
\* one of them not a range at all.
PriceLabels ==
    { NULL,
      Some(<<"1", "0", "0", ".", "0", "0", "-", "1", "5", "0", ".", "0", "0">>),
      Some(<<"9", ".", "9", "9", "-", "1", "9", ".", "9", "9">>),
      Some(<<"9", ".", "9", "9", "-", "1", "4", ".", "9", "9">>),
      Some(<<"2", "0", ".", "0", "0", "-", "2", "9", ".", "9", "9">>),
      Some(<<"N", "/", "A">>) }

DeveloperCounts == {1, 2}

\* Rows sp_analyze_game_price_developer_relationship can return.
PriceRows ==
    { [full_price_interval |-> l, count |-> Some(c)]
      : l \in PriceLabels, c \in DeveloperCounts }

\* The code point of a character, for the comparison of strings.
Ord(ch) ==
    CASE ch = " " -> 32 [] ch = "-" -> 45 [] ch = "." -> 46 [] ch = "/" -> 47
      [] ch = "A" -> 65 [] ch = "N" -> 78 [] ch = "Q" -> 81
      [] OTHER -> 47 + (CHOOSE d \in 1..10 : Digits[d] = ch)

RECURSIVE StrLess(_, _)
\* Python's < on strings.
StrLess(a, b) ==
    IF b = <<>> THEN FALSE
    ELSE IF a = <<>> THEN TRUE
    ELSE IF Head(a) = Head(b) THEN StrLess(Tail(a), Tail(b))
    ELSE Ord(Head(a)) < Ord(Head(b))

\* x.split('-')[0]: the text before the first '-', all of x when it has none.
FirstToken(x) ==
    IF \E i \in 1..Len(x) : x[i] = "-"
    THEN SubSeq(x, 1, FirstIdx(x, "-") - 1)
    ELSE x

IsDigits(str) == \A i \in 1..Len(str) : str[i] \in Range(Digits)

RECURSIVE StrToNat(_)
\* The number a string of digits denotes.
StrToNat(str) ==
    IF str = <<>> THEN 0
    ELSE 10 * StrToNat(SubSeq(str, 1, Len(str) - 1))
         + (CHOOSE d \in 0..9 : Digits[d + 1] = str[Len(str)])

\* The texts float() accepts here: digits with at most one '.', and at
\* least one digit.
IsFloatText(str) ==
    LET dot == FirstIdx(str, ".")
        ip == IF dot = 0 THEN str ELSE SubSeq(str, 1, dot - 1)
        fp == IF dot = 0 THEN <<>> ELSE SubSeq(str, dot + 1, Len(str))
    IN /\ IsDigits(ip)
       /\ IsDigits(fp)
       /\ Len(ip) + Len(fp) > 0

\* float(str), in hundredths; the labels carry at most two decimals.
ParseFloat(str) ==
    LET dot == FirstIdx(str, ".")
        ip == IF dot = 0 THEN str ELSE SubSeq(str, 1, dot - 1)
        fp == IF dot = 0 THEN <<>> ELSE SubSeq(str, dot + 1, Len(str))
        fp2 == SubSeq(fp \o <<"0", "0">>, 1, 2)
    IN 100 * StrToNat(ip) + StrToNat(fp2)

\* The keys of groupby('full_price_interval'): null keys are dropped.
PriceKeys(data) ==
    { data[i].full_price_interval : i \in 1..Len(data) } \ {NULL}

RECURSIVE SumCount(_, _)
\* agg({"count": "sum"}) of one group.
SumCount(data, key) ==
    IF data = <<>> THEN 0
    ELSE (IF Head(data).full_price_interval = key
          THEN Val(Head(data).count) ELSE 0)
         + SumCount(Tail(data), key)

\* Orders of a set of labels that Python's string order allows (one, as the
\* labels are distinct).
LexOrders(keys) ==
    { o \in [1..Cardinality(keys) -> keys] :
        \A i, j \in 1..Cardinality(keys) :
            i < j => StrLess(Val(o[i]), Val(o[j])) }

\* Lines 239-240: groupby(...).agg(...).reset_index(); the groups come
\* sorted by key (sort=True is groupby's default).
GroupBySum(data) ==
    LET o == CHOOSE o \in LexOrders(PriceKeys(data)) : TRUE
    IN [i \in 1..Len(o) |->
          [full_price_interval |-> o[i], count |-> SumCount(data, o[i])]]

\* Line 241: the min_price column.
MinPrice(row) == ParseFloat(FirstToken(Val(row.full_price_interval)))

\* Line 241 raises ValueError when a first token is no number.
MinPriceRaises(df) ==
    \E i \in 1..Len(df) :
        ~IsFloatText(FirstToken(Val(df[i].full_price_interval)))

\* The frame left in groupby's order: the sort_values call left out.
Unsorted(df) == {df}

\* Line 242: sort_values(by='min_price').  The default sort is not stable,
\* so rows with equal min_price may come out in either order.
SortValues(df) ==
    { [i \in 1..Len(df) |-> df[perm[i]]] :
        perm \in { q \in [1..Len(df) -> 1..Len(df)] :
                     /\ \A i, j \in 1..Len(df) : i # j => q[i] # q[j]
                     /\ \A i, j \in 1..Len(df) :
                          i < j => MinPrice(df[q[i]]) <= MinPrice(df[q[j]]) } }

----------------------------------------------------------------------------
(* The data pipeline as actions *)

\* Line 54 with the yearly formatter of lines 78-88.
FormatterYearly ==
    /\ stage = "raw"
    /\ date_interval' = "yearly"
    /\ dtypes' = FloatColumns(raw)
    /\ shaped' = Formatter(raw, "yearly")
    /\ stage' = "shaped"
    /\ UNCHANGED <<raw, series>>
    /\ UNCHANGED <<pc, caller, runs, conns, cp_conn, exc, trace, label,
                   formatter, procedure, pivot_axis, genres, languages,
                   selected_genres, selected_languages, button>>

\* Line 54 with the quarterly formatter of lines 91-101.
FormatterQuarterly ==
    /\ stage = "raw"
    /\ date_interval' = "quarterly"
    /\ dtypes' = FloatColumns(raw)
    /\ shaped' = Formatter(raw, "quarterly")
    /\ stage' = "shaped"
    /\ UNCHANGED <<raw, series>>
    /\ UNCHANGED <<pc, caller, runs, conns, cp_conn, exc, trace, label,
                   formatter, procedure, pivot_axis, genres, languages,
                   selected_genres, selected_languages, button>>

\* Line 54 with the monthly formatter of lines 104-114.
FormatterMonthly ==
    /\ stage = "raw"
    /\ date_interval' = "monthly"
    /\ dtypes' = FloatColumns(raw)
    /\ shaped' = Formatter(raw, "monthly")
    /\ stage' = "shaped"
    /\ UNCHANGED <<raw, series>>
    /\ UNCHANGED <<pc, caller, runs, conns, cp_conn, exc, trace, label,
                   formatter, procedure, pivot_axis, genres, languages,
                   selected_genres, selected_languages, button>>

\* Line 54 with the daily formatter of lines 117-127.
FormatterDaily ==
    /\ stage = "raw"
    /\ date_interval' = "daily"
    /\ dtypes' = FloatColumns(raw)
    /\ shaped' = Formatter(raw, "daily")
    /\ stage' = "shaped"
    /\ UNCHANGED <<raw, series>>
    /\ UNCHANGED <<pc, caller, runs, conns, cp_conn, exc, trace, label,
                   formatter, procedure, pivot_axis, genres, languages,
                   selected_genres, selected_languages, button>>

\* Lines 137-144.
ProjectYearly ==
    /\ stage = "shaped"
    /\ date_interval = "yearly"
    /\ series' = YearlySeries(shaped, dtypes)
    /\ stage' = "charted"
    /\ UNCHANGED <<raw, shaped, dtypes>>
    /\ UNCHANGED ctlvars

\* Lines 146-155.
ProjectQuarterly ==
    /\ stage = "shaped"
    /\ date_interval = "quarterly"
    /\ series' = QuarterlySeries(shaped, dtypes)
    /\ stage' = "charted"
    /\ UNCHANGED <<raw, shaped, dtypes>>
    /\ UNCHANGED ctlvars

\* Lines 157-166.
ProjectMonthly ==
    /\ stage = "shaped"
    /\ date_interval = "monthly"
    /\ series' = MonthlySeries(shaped, dtypes)
    /\ stage' = "charted"
    /\ UNCHANGED <<raw, shaped, dtypes>>
    /\ UNCHANGED ctlvars

\* Lines 168-175.
ProjectDaily ==
    /\ stage = "shaped"
    /\ date_interval = "daily"
    /\ series' = DailySeries(shaped, dtypes)
    /\ stage' = "charted"
    /\ UNCHANGED <<raw, shaped, dtypes>>
    /\ UNCHANGED ctlvars

\* Line 54 with the identity formatter of lines 231-232, for either pivot
\* axis of line 228.
FormatterIdentity ==
    /\ stage = "raw"
    /\ \E a \in {"price", "developer"} : pivot_axis' = a
    /\ dtypes' = FloatColumns(raw)
    /\ shaped' = raw
    /\ stage' = "shaped"
    /\ UNCHANGED <<raw, series>>
    /\ UNCHANGED <<pc, caller, runs, conns, cp_conn, exc, trace, label,
                   formatter, procedure, date_interval, genres, languages,
                   selected_genres, selected_languages, button>>

\* Lines 237-250: the chart data of the price pivot.  Line 243 drops
\* min_price again, so the frame holds full_price_interval and count.
PriceChart ==
    /\ stage = "shaped"
    /\ pivot_axis = "price"
    /\ LET grouped == GroupBySum(shaped)
       IN IF MinPriceRaises(grouped)
          THEN /\ stage' = "raised"
               /\ UNCHANGED series
          ELSE /\ \E sorted \in SortValues(grouped) : series' = sorted
               /\ stage' = "charted"
    /\ UNCHANGED <<raw, shaped, dtypes>>
    /\ UNCHANGED ctlvars

----------------------------------------------------------------------------
(* Specifications *)

CtlIdle ==
    /\ pc = "idle"
    /\ caller = "none"
    /\ runs = 0
    /\ conns = <<>>
    /\ cp_conn = 0
    /\ exc = "none"
    /\ trace = <<>>
    /\ label = NoLabel
    /\ formatter = "none"
    /\ procedure = NoLabel
    /\ date_interval = "none"
    /\ pivot_axis = "none"
    /\ genres = <<>>
    /\ languages = <<>>
    /\ selected_genres = {}
    /\ selected_languages = {}
    /\ button = FALSE

DataOff ==
    /\ stage = "off"
    /\ raw = <<>>
    /\ shaped = <<>>
    /\ series = <<>>
    /\ dtypes = {}

Init == CtlIdle /\ DataOff

Next ==
    \/ StartMain
    \/ StartDirect
    \/ GglConnect
    \/ GglQuery
    \/ GglFinally
    \/ MainDateRange
    \/ MainPriceReviews
    \/ MainGenreLanguage
    \/ MainPriceDeveloper
    \/ CpLookup
    \/ CpConnect
    \/ CpCursor
    \/ CpCallproc
    \/ CpFetchall
    \/ CpDescription
    \/ CpFormatter
    \/ CpStyle
    \/ CpFinally
    \/ MainCoerce
    \/ MainWrite
    \/ MainProject
    \/ MainChart
    \/ MainChart2

Spec == Init /\ [][Next]_vars

InitShape ==
    /\ CtlIdle
    /\ stage = "raw"
    /\ raw \in Tables(RawRows)
    /\ shaped = <<>>
    /\ series = <<>>
    /\ dtypes = {}

NextShape ==
    \/ FormatterYearly
    \/ FormatterQuarterly
    \/ FormatterMonthly
    \/ FormatterDaily
    \/ ProjectYearly
    \/ ProjectQuarterly
    \/ ProjectMonthly
    \/ ProjectDaily

SpecShape == InitShape /\ [][NextShape]_vars

InitPrice ==
    /\ CtlIdle
    /\ stage = "raw"
    /\ raw \in Tables(PriceRows)
    /\ shaped = <<>>
    /\ series = <<>>
    /\ dtypes = {}

NextPrice ==
    \/ FormatterIdentity
    \/ PriceChart

SpecPrice == InitPrice /\ [][NextPrice]_vars

----------------------------------------------------------------------------
(* Properties of the control flow (Spec) *)

\* The positions inside call_procedure at which its connection is in use.
CpBody == {"cp_cursor", "cp_callproc", "cp_fetchall", "cp_description",
           "cp_formatter", "cp_style", "cp_finally"}

\* C1: once call_procedure has opened a connection, that connection is
\* closed in every state in which control is outside the function's try
\* statement, whether the function returned or raised (from callproc,
\* fetchall, description, the formatter or the styling).
C1_ConnectionClosedOnEveryExit ==
    (cp_conn # 0 /\ pc \notin CpBody) => conns[cp_conn] = "closed"

\* C1 witness: the formatter raised and the exception has left
\* call_procedure, whose connection is closed.
C1_Witness_FormatterRaised ==
    /\ pc = "raised"
    /\ exc = "formatter"
    /\ cp_conn # 0
    /\ conns[cp_conn] = "closed"

\* C2: a call of call_procedure with a label that is no key of PROCEDURES
\* ends with KeyError, having opened no connection and invoked no procedure.
C2_UnknownLabelNoBackendCall ==
    (label \notin DOMAIN PROCEDURES /\ label # NoLabel /\ pc # "cp_lookup")
    => /\ pc = "raised"
       /\ exc = "KeyError"
       /\ cp_conn = 0
       /\ trace = <<>>

\* C2 witness: an unknown label has been looked up and the call has failed.
C2_Witness_UnknownLabelRaised ==
    /\ caller = "direct"
    /\ label = UnknownLabel
    /\ pc = "raised"
    /\ exc = "KeyError"

\* A run of main that pressed Run Procedure, called call_procedure and has
\* come to its end without an exception.
RunCompleted == caller = "main" /\ pc = "done" /\ button /\ label # NoLabel

OpenConnections == {i \in 1..Len(conns) : conns[i] = "open"}

\* C9 as stated: a completed run with Run Procedure pressed has opened
\* exactly one connection.
C9_ExactlyOneOpenPerRun ==
    RunCompleted => Count(trace, "open") = 1

\* C9 amended: a completed run of main with Run Procedure pressed opens
\* exactly two connections, one after the other: the one of
\* get_genres_and_languages, closed before the sidebar is read, then the one
\* of call_procedure, followed in this order by invoke, shape and close;
\* table, projection and charts come after the close, a chart never before
\* a projection; and no two connections are ever open at the same time.
C9_TwoOpensInSequence ==
    /\ Cardinality(OpenConnections) <= 1
    /\ RunCompleted =>
        /\ Count(trace, "open") = 2
        /\ Len(trace) >= 7
        /\ SubSeq(trace, 1, 6)
             = <<"open", "close", "open", "callproc", "shape", "close">>
        /\ \A i \in 7..Len(trace) : trace[i] \in {"write", "project", "chart"}
        /\ Count(trace, "write") = 1
        /\ \A i \in 7..Len(trace) :
              trace[i] = "chart" => \E j \in 7..(i - 1) : trace[j] = "project"

\* C9 witness: a date-range run has drawn its chart.
C9_Witness_DateRangeRunDone ==
    /\ RunCompleted
    /\ procedure = DATE_RANGE
    /\ trace[Len(trace)] = "chart"

\* C10: in the genre/language branch of main an empty selection of genres
\* or of languages ends the run after the warning: call_procedure is not
\* entered and no procedure is invoked, whatever the button says.
C10_EmptySelectionNoCall ==
    (/\ caller = "main"
     /\ procedure = GENRE_LANGUAGE
     /\ (selected_genres = {} \/ selected_languages = {}))
    => /\ pc = "done"
       /\ label = NoLabel
       /\ cp_conn = 0
       /\ Count(trace, "callproc") = 0
       /\ trace = <<"open", "close", "warning">>

\* C10 witness: genres and languages exist, the user cleared the genres and
\* pressed Run Procedure, and the run is over.
C10_Witness_EmptyGenresButtonPressed ==
    /\ caller = "main"
    /\ procedure = GENRE_LANGUAGE
    /\ genres # <<>>
    /\ selected_genres = {}
    /\ selected_languages # {}
    /\ button
    /\ pc = "done"

----------------------------------------------------------------------------
(* Properties of the date-range shaper and its charts (SpecShape) *)

Shaped == stage \in {"shaped", "charted"}

\* Raw row i has the key of output row g, null being equal to null.
SameKey(i, g) ==
    \A c \in Range(GroupKey(date_interval)) : raw[i][c] = shaped[g][c]

\* The raw rows have pairwise distinct GroupKeys.
KeysDistinct ==
    \A i, j \in 1..Len(raw) :
        i # j => KeyOf(raw[i], GroupKey(date_interval))
                 # KeyOf(raw[j], GroupKey(date_interval))

\* C3: every raw row, a row with a null key value included, is represented
\* in the shaped table by the output row of its key.
C3_NullKeysTakePartInGrouping ==
    Shaped => \A i \in 1..Len(raw) : \E g \in 1..Len(shaped) : SameKey(i, g)

\* C4: the shaped table has at most as many rows as the raw table, and as
\* many exactly when the raw GroupKeys are pairwise distinct.
C4_RowCountEqualIffKeysDistinct ==
    Shaped => /\ Len(shaped) <= Len(raw)
              /\ (Len(shaped) = Len(raw)) <=> KeysDistinct

\* C5: every output cell of developer, genre, website and platform is the
\* set of the non-null values of that column in the raw rows of the group;
\* it is a set without a null member, empty when all of them are null.
C5_CellsAreDistinctNonNullValues ==
    Shaped =>
        \A g \in 1..Len(shaped) : \A c \in SetColumns :
            /\ NULL \notin shaped[g][c]
            /\ \A i \in 1..Len(raw) :
                 (SameKey(i, g) /\ raw[i][c] # NULL) => raw[i][c] \in shaped[g][c]
            /\ \A v \in shaped[g][c] :
                 \E i \in 1..Len(raw) : SameKey(i, g) /\ raw[i][c] = v

\* C5 witness: one group collected two developers, dropped a null genre
\* and has the empty set for a column that was null in all its rows.
C5_Witness_TwoDevelopersNullsDropped ==
    /\ Shaped
    /\ \E g \in 1..Len(shaped) :
        /\ shaped[g].developer = {Some("X"), Some("Y")}
        /\ shaped[g].genre = {Some("Action")}
        /\ shaped[g].website = {}
        /\ \E i \in 1..Len(raw) : SameKey(i, g) /\ raw[i].genre = NULL

\* The first raw row with the key of output row g (0 if there is none).
FirstRowOf(g) ==
    IF \E i \in 1..Len(raw) : SameKey(i, g)
    THEN CHOOSE i \in 1..Len(raw) :
            SameKey(i, g) /\ \A j \in 1..(i - 1) : ~SameKey(j, g)
    ELSE 0

\* C6: the output rows come in the order in which their keys first occur
\* in the raw rows.
C6_FirstOccurrenceOrder ==
    Shaped =>
        /\ \A g \in 1..Len(shaped) : FirstRowOf(g) # 0
        /\ \A g, h \in 1..Len(shaped) :
              g < h => FirstRowOf(g) < FirstRowOf(h)

\* C6 witness: a key occurs again after a later key, and the output is not
\* in ascending order of key value (same period, count 6 before count 5).
C6_Witness_InterleavedNotSorted ==
    /\ Shaped
    /\ date_interval = "daily"
    /\ Len(raw) = 3
    /\ Len(shaped) = 2
    /\ SameKey(1, 1) /\ SameKey(2, 2) /\ SameKey(3, 1)
    /\ shaped[1].Date = shaped[2].Date
    /\ Val(shaped[1].count) > Val(shaped[2].count)

\* C8 as stated: no category label occurs in two entries of a chart series.
C8_CategoriesUnique ==
    stage = "charted" =>
        \A i, j \in 1..Len(series) :
            i # j => series[i].category # series[j].category

\* The period columns of a GroupKey: the key without count, name and price.
PeriodColumns == Range(GroupKey(date_interval)) \ {"count", "name", "price"}

\* The shaped table gives every period one count.
OneCountPerPeriod ==
    \A g, h \in 1..Len(shaped) :
        (\A c \in PeriodColumns : shaped[g][c] = shaped[h][c])
        => shaped[g].count = shaped[h].count

\* C8 amended: a chart series of the date-range query is deduplicated on
\* the pair of category and count: no pair occurs in two entries, and every
\* pair of period and count of the shaped table is in the series.  A
\* category label is unique when the shaped table gives every period one
\* count.
C8_CategoryCountPairsUnique ==
    stage = "charted" =>
        /\ \A i, j \in 1..Len(series) : i # j => series[i] # series[j]
        /\ Cardinality(Range(series))
             = Cardinality({ [c \in PeriodColumns \cup {"count"} |-> shaped[g][c]]
                             : g \in 1..Len(shaped) })
        /\ OneCountPerPeriod => C8_CategoriesUnique

\* C8 witness: two display rows of one period and count (two games) gave
\* one chart entry, and another entry has the same period with another
\* count.
C8_Witness_DuplicatesDropped ==
    /\ stage = "charted"
    /\ Len(shaped) = 3
    /\ Len(series) = 2
    /\ series[1].category = series[2].category

----------------------------------------------------------------------------
(* Properties of the price pivot chart (SpecPrice) *)

\* C7: the chart series of the price pivot has one entry for every
\* full_price_interval of the shaped table, its value the sum of count over
\* the rows of that interval, and the entries ascend by the number before
\* the first '-' of the label.
C7_PriceSeriesSummedAndNumericallySorted ==
    (stage = "charted" /\ pivot_axis = "price") =>
        /\ { series[i].full_price_interval : i \in 1..Len(series) }
             = PriceKeys(shaped)
        /\ Len(series) = Cardinality(PriceKeys(shaped))
        /\ \A i \in 1..Len(series) :
              series[i].count = SumCount(shaped, series[i].full_price_interval)
        /\ \A i, j \in 1..Len(series) :
              i < j => MinPrice(series[i]) <= MinPrice(series[j])

\* C7 witness: the categories 100.00-150.00, 9.99-19.99 and 20.00-29.99
\* come out as 9.99-19.99, 20.00-29.99, 100.00-150.00.
C7_Witness_NumericNotLexicographic ==
    /\ stage = "charted"
    /\ pivot_axis = "price"
    /\ Len(series) = 3
    /\ series[1].full_price_interval
         = Some(<<"9", ".", "9", "9", "-", "1", "9", ".", "9", "9">>)
    /\ series[2].full_price_interval
         = Some(<<"2", "0", ".", "0", "0", "-", "2", "9", ".", "9", "9">>)
    /\ series[3].full_price_interval
         = Some(<<"1", "0", "0", ".", "0", "0", "-", "1", "5", "0", ".", "0", "0">>)
    /\ raw[1].full_price_interval = series[3].full_price_interval
    /\ raw[2].full_price_interval = series[1].full_price_interval

====
